---- MODULE Spec2Model ----
(***************************************************************************)
(* Build, packaging and CI glue of idaes-pse:                              *)
(*   - the idaes-docker script (src/docs/Makefile, lines 321-446),         *)
(*   - the Sphinx documentation Makefile (src/docs/Makefile, lines 1-319), *)
(*   - the cubic_roots Makefile (src/unnamed/part_000),                    *)
(*   - the CircleCI job (src/unnamed/part_002),                            *)
(*   - the Heater unit model of the notebook (src/unnamed/part_001).       *)
(***************************************************************************)
EXTENDS Integers, Sequences, FiniteSets, TLC

VARIABLES
  \* ---- idaes-docker: one invocation of the script
  pc,          \* position in the script
  arg1,        \* $1
  args,        \* the arguments after $1 (user-provided tags of 'create')
  stack,       \* return positions of the function calls in progress
  cmds,        \* external commands issued so far in this invocation
  out,         \* messages printed so far in this invocation
  exitStatus,  \* exit status of the script, NotExited while it runs
  n,           \* check_image: number of lines of 'docker images -q'
  response,    \* check_image: the variable set by 'read response'
  getcmd,      \* install_image: the download command
  ver,         \* build_image: detected package version
  tagopt,      \* build_image: the tags given to 'docker build'
  imgid,       \* build_image: image id found for the version tag
  status,      \* $?: exit status of the last command
  \* ---- the machine the script runs on
  images,      \* tags present in the local docker image store
  files,       \* content of the image files in the working directory
  hasWget,     \* 'wget -h' exits 0
  hasCurl,     \* 'curl -h' exits 0
  \* ---- make: one run of make on a Makefile
  makefile,    \* "docs" (src/docs/Makefile) or "cubic" (src/unnamed/part_000)
  goal,        \* the goal of the current (or last) run
  mstack,      \* targets being considered, innermost last
  made,        \* targets already brought up to date in this run
  mlog,        \* recipe lines executed in this run, with their exit status
  mstate,      \* "idle", "running", "ok" (exit 0) or "failed" (exit 2)
  prev,        \* history: goal and end state of the run before this one
  \* ---- the directories make works in
  mtime,       \* cubic_roots directory: modification time of each file, 0 = absent
  clock,       \* time of the last write
  dfs,         \* docs directory: generated files
  \* ---- the CircleCI job
  ciState,     \* "idle", "running", "waiting" (for make), "failed" or "passed"
  ciPos,       \* index of the step to run next
  ciLog,       \* steps run so far in this job, with their exit status
  \* ---- the Heater notebook: one Heater block being built
  hpc,         \* position in HeaterData.build / make_control_volume
  hconfig,     \* the config block of the unit: dynamic, has_holdup
  hcaller,     \* who called make_control_volume: "build" or "notebook"
  hname,       \* make_control_volume: the argument name
  hcalls,      \* library calls that returned, in order
  hattrs,      \* attributes attached to the unit, in order
  hcv,         \* the control volume: <<>> before it is created, then what it holds
  hraised      \* the exception that ended the build, "" when none

mvars == <<makefile, goal, mstack, made, mlog, mstate, prev, mtime, clock, dfs>>
cvars == <<ciState, ciPos, ciLog>>
hvars == <<hpc, hconfig, hcaller, hname, hcalls, hattrs, hcv, hraised>>

dvars == <<pc, arg1, args, stack, cmds, out, exitStatus, n, response, getcmd,
           ver, tagopt, imgid, status, images, files, hasWget, hasCurl>>

-----------------------------------------------------------------------------
(* idaes-docker: names and texts *)

IMAGE_REPO == "idaes"
IMAGE_TAG == "idaes_pse"
\* the image check_image asks docker for
CheckedImage == IMAGE_REPO \o ":" \o IMAGE_TAG
\* the image the test and notebook commands start
RunImage == "idaes/idaes_jupyterhub"
url == "https://s3.amazonaws.com/idaes/idaes-pse"
filenm == "idaes-pse-docker-latest.tgz"
vertag(v) == IMAGE_REPO \o "/" \o IMAGE_TAG \o ":v" \o v
usertag(t) == IMAGE_REPO \o "/" \o IMAGE_TAG \o ":" \o t
imgname(v) == "idaes-pse-docker-" \o v \o ".tgz"

UsageText == "./idaes-docker COMMAND ..."
NotFoundText == "Docker image " \o CheckedImage \o " not found"
PromptText == "Download and install latest image now (y/N)? "
HelpText == "Command aborted. For information on how to install ..."
NoGetText == "Could not find 'curl' or 'wget' command. Abort."
DownloadingText == "Downloading image.."
DownloadFailedText == "Download failed. Abort command."
LoadingText == "Loading image.."
RunningTestsText == "Running tests in container..."
StartingJupyterText == "Starting Jupyter..."
UpdatingText == "Updating IDAES image..."
CreateText == "Create new Docker image file"
DetectedText(v) == "Detected IDAES package version " \o v
BuildingText == "Building image..."
ImageExistsText(v) == "Nothing to do: image " \o vertag(v) \o " already exists"
SavingText == "Saving image.."
DoneText(v) == "Done: " \o imgname(v)
FileExistsText(v) == "Nothing to do: image file " \o imgname(v) \o " already exists"

\* exit status of a script that has not exited
NotExited == -1
\* n before check_image has set it
Unset == -1

-----------------------------------------------------------------------------
(* Inputs and environment *)

\* first arguments tried: none, each command, and words that are no command
FirstArgs == {"", "test", "notebook", "update", "create", "-h", "help",
              "Test", "install"}
\* user-provided tags of 'create'
TagArgs == {<<>>, <<"latest">>}
\* what 'python -c "from idaes import ver; ..."' prints ("" when it fails)
Versions == {"", "1.0.0"}
\* exit statuses of a command that fails
FailCodes == {1, 2}
Tags == {CheckedImage, RunImage, usertag("latest")} \cup {vertag(v) : v \in Versions}
\* images the downloaded archive may hold
LoadableTags == {CheckedImage, RunImage}
\* image files the script reads or writes
FileNames == {filenm} \cup {imgname(v) : v \in Versions}
\* "none": no such file; "image": a saved image; "junk": anything else
Contents == {"none", "image", "junk"}

\* lines typed at the prompt, as sequences of characters
Lines == { <<>>, <<"y">>, <<"Y">>, <<"y","e","s">>, <<"Y","e","s">>,
           <<"Y","E","S">>, <<"n">>, <<"N">>, <<"n","o">>, <<"y","E","S">>,
           <<"y","e">>, <<"y","e","s","s">>, <<"y","y">>, <<" ">>,
           <<" ","y">>, <<"y"," ">>, <<"y"," ","e","s">>, <<"\\","y">>,
           <<"\\"," ","y">>, <<"o","k">> }

-----------------------------------------------------------------------------
(* Shell builtins *)

printf(o, m) == Append(o, m)

\* 'read' without -r: a backslash quotes the next character and is removed
RECURSIVE Unquote(_)
Unquote(s) ==
  IF s = <<>> THEN <<>>
  ELSE IF Head(s) = "\\"
       THEN IF Len(s) = 1 THEN <<>>
            ELSE <<[ch |-> s[2], q |-> TRUE]>> \o Unquote(SubSeq(s, 3, Len(s)))
       ELSE <<[ch |-> Head(s), q |-> FALSE]>> \o Unquote(Tail(s))

IsIFS(e) == ~e.q /\ e.ch \in {" ", "\t"}

RECURSIVE StripLeft(_)
StripLeft(s) ==
  IF s # <<>> /\ IsIFS(Head(s)) THEN StripLeft(Tail(s)) ELSE s

RECURSIVE StripRight(_)
StripRight(s) ==
  IF s # <<>> /\ IsIFS(s[Len(s)]) THEN StripRight(SubSeq(s, 1, Len(s) - 1)) ELSE s

RECURSIVE Join(_)
Join(s) == IF s = <<>> THEN "" ELSE Head(s).ch \o Join(Tail(s))

\* 'read response': the value the variable gets from a typed line; with one
\* variable, leading and trailing unquoted IFS whitespace is removed
read(line) == Join(StripRight(StripLeft(Unquote(line))))

\* the case patterns matched without regard to letter case
Accepts_nocase(r) == r \in {"y", "Y", "yes", "Yes", "YES", "yES", "yEs", "YeS"}

\* case "$response" in y|Y|yes|Yes|YES) ...
Accepts(r) == r \in {"y", "Y", "yes", "Yes", "YES"}

-----------------------------------------------------------------------------
(* idaes-docker: the script *)

\* an external command, with the exit status it returned
Cmd(prog, a, rc) == [prog |-> prog, args |-> a, rc |-> rc]
\* exit status of a command the shell does not find
NotFound == 127
rcOf(ok) == IF ok THEN 0 ELSE 1
ImageId(t) == "id:" \o t
Range(s) == {s[i] : i \in DOMAIN s}

\* 'docker images -q <tag>': the id of the image, nothing when there is no
\* such image or docker does not answer
docker_images_q(t, up) == IF up /\ t \in images THEN ImageId(t) ELSE ""

\* 'exit <code>'
Exit(code) ==
  /\ pc' = "exited"
  /\ exitStatus' = code
  /\ stack' = <<>>

\* return from a shell function to its caller
Return ==
  /\ pc' = stack[Len(stack)]
  /\ stack' = SubSeq(stack, 1, Len(stack) - 1)

\* usage without its 'exit 1': the script goes on to its end
usage_returns ==
  /\ out' = printf(out, UsageText)
  /\ pc' = "end"
  /\ UNCHANGED <<exitStatus, stack>>

\* usage with 'exit 0' for 'exit 1'
usage_exit0 ==
  /\ out' = printf(out, UsageText)
  /\ Exit(0)

\* function usage: print the usage text, exit 1
usage ==
  /\ out' = printf(out, UsageText)
  /\ Exit(1)

\* function install_image_help
install_image_help(o) == printf(o, HelpText)

DInit ==
  /\ pc = "idle"
  /\ arg1 = ""
  /\ args = <<>>
  /\ stack = <<>>
  /\ cmds = <<>>
  /\ out = <<>>
  /\ exitStatus = NotExited
  /\ n = Unset
  /\ response = ""
  /\ getcmd = ""
  /\ ver = ""
  /\ tagopt = <<>>
  /\ imgid = ""
  /\ status = 0
  /\ images \in SUBSET Tags
  /\ files \in [FileNames -> Contents]
  /\ hasWget \in BOOLEAN
  /\ hasCurl \in BOOLEAN

\* the script is never invoked: a machine without docker images or tools
DIdle ==
  /\ pc = "idle"
  /\ arg1 = ""
  /\ args = <<>>
  /\ stack = <<>>
  /\ cmds = <<>>
  /\ out = <<>>
  /\ exitStatus = NotExited
  /\ n = Unset
  /\ response = ""
  /\ getcmd = ""
  /\ ver = ""
  /\ tagopt = <<>>
  /\ imgid = ""
  /\ status = 0
  /\ images = {}
  /\ files = [f \in FileNames |-> "none"]
  /\ hasWget = FALSE
  /\ hasCurl = FALSE

\* the user runs ./idaes-docker [COMMAND [TAG...]]
Invoke ==
  /\ pc \in {"idle", "exited"}
  /\ UNCHANGED <<mvars, cvars, hvars>>
  /\ \E a \in FirstArgs, t \in TagArgs :
       /\ arg1' = a
       /\ args' = IF a = "create" THEN t ELSE <<>>
  /\ pc' = "main"
  /\ stack' = <<>>
  /\ cmds' = <<>>
  /\ out' = <<>>
  /\ exitStatus' = NotExited
  /\ n' = Unset
  /\ response' = ""
  /\ getcmd' = ""
  /\ ver' = ""
  /\ tagopt' = <<>>
  /\ imgid' = ""
  /\ status' = 0
  /\ UNCHANGED <<images, files, hasWget, hasCurl>>

\* the dispatcher with 'update' calling check_image before install_image
Dispatch_update_checks ==
  /\ pc = "main"
  /\ UNCHANGED <<mvars, cvars, hvars>>
  /\ IF arg1 = ""
     THEN usage
     ELSE CASE arg1 \in {"test", "notebook"} ->
                 /\ pc' = "check_image"
                 /\ stack' = <<arg1>>
                 /\ UNCHANGED <<out, exitStatus>>
            [] arg1 = "update" ->
                 /\ out' = printf(out, UpdatingText)
                 /\ pc' = "check_image"
                 /\ stack' = <<"end">>
                 /\ UNCHANGED exitStatus
            [] arg1 = "create" ->
                 /\ out' = printf(out, CreateText)
                 /\ pc' = "build_image"
                 /\ stack' = <<"end">>
                 /\ UNCHANGED exitStatus
            [] OTHER -> usage
  /\ UNCHANGED <<arg1, args, cmds, n, response, getcmd, ver, tagopt, imgid,
                 status, images, files, hasWget, hasCurl>>

\* lines 417-446: if [[ -z $1 ]] ... case $1 in ... esac
Dispatch ==
  /\ pc = "main"
  /\ UNCHANGED <<mvars, cvars, hvars>>
  /\ IF arg1 = ""
     THEN usage
     ELSE CASE arg1 = "test" ->
                 /\ pc' = "check_image"
                 /\ stack' = <<"test">>
                 /\ UNCHANGED <<out, exitStatus>>
            [] arg1 = "notebook" ->
                 /\ pc' = "check_image"
                 /\ stack' = <<"notebook">>
                 /\ UNCHANGED <<out, exitStatus>>
            [] arg1 = "update" ->
                 /\ out' = printf(out, UpdatingText)
                 /\ pc' = "install_image"
                 /\ stack' = <<"end">>
                 /\ UNCHANGED exitStatus
            [] arg1 = "create" ->
                 /\ out' = printf(out, CreateText)
                 /\ pc' = "build_image"
                 /\ stack' = <<"end">>
                 /\ UNCHANGED exitStatus
            [] arg1 \in {"-h", "help"} -> usage
            [] OTHER -> usage
  /\ UNCHANGED <<arg1, args, cmds, n, response, getcmd, ver, tagopt, imgid,
                 status, images, files, hasWget, hasCurl>>

\* check_image, lines 344-347 and 353-354
check_image ==
  /\ pc = "check_image"
  /\ UNCHANGED <<mvars, cvars, hvars>>
  /\ \E up \in BOOLEAN :
       /\ n' = IF docker_images_q(CheckedImage, up) = "" THEN 0 ELSE 1
       /\ cmds' = Append(cmds, Cmd("docker", <<"images", "-q", CheckedImage>>, rcOf(up)))
  /\ IF n' = 0
     THEN /\ out' = printf(printf(out, NotFoundText), PromptText)
          /\ pc' = "read"
          /\ stack' = stack
     ELSE /\ out' = out
          /\ Return
  /\ UNCHANGED <<arg1, args, exitStatus, response, getcmd, ver, tagopt, imgid,
                 status, images, files, hasWget, hasCurl>>

\* read_response with the 'exit 1' after install_image_help left out
read_response_noexit ==
  /\ pc = "read"
  /\ UNCHANGED <<mvars, cvars, hvars>>
  /\ \E line \in Lines : response' = read(line)
  /\ IF Accepts(response')
     THEN /\ pc' = "install_image"
          /\ stack' = Append(stack, "check_image_end")
          /\ out' = out
     ELSE /\ out' = install_image_help(out)
          /\ Return
  /\ UNCHANGED <<arg1, args, cmds, exitStatus, n, getcmd, ver, tagopt, imgid,
                 status, images, files, hasWget, hasCurl>>

\* check_image, lines 348-352: read response; case "$response" in ...
read_response ==
  /\ pc = "read"
  /\ UNCHANGED <<mvars, cvars, hvars>>
  /\ \E line \in Lines : response' = read(line)
  /\ IF Accepts(response')
     THEN /\ pc' = "install_image"
          /\ stack' = Append(stack, "check_image_end")
          /\ UNCHANGED <<out, exitStatus>>
     ELSE /\ out' = install_image_help(out)
          /\ Exit(1)
  /\ UNCHANGED <<arg1, args, cmds, n, getcmd, ver, tagopt, imgid, status,
                 images, files, hasWget, hasCurl>>

\* check_image, line 354: the function returns after install_image
check_image_end ==
  /\ pc = "check_image_end"
  /\ UNCHANGED <<mvars, cvars, hvars>>
  /\ Return
  /\ UNCHANGED <<arg1, args, cmds, out, exitStatus, n, response, getcmd, ver,
                 tagopt, imgid, status, images, files, hasWget, hasCurl>>

\* install_image, lines 357-361: wget -h
probe_wget ==
  /\ pc = "install_image"
  /\ UNCHANGED <<mvars, cvars, hvars>>
  /\ cmds' = Append(cmds, Cmd("wget", <<"-h">>, IF hasWget THEN 0 ELSE NotFound))
  /\ IF hasWget
     THEN getcmd' = "wget" /\ pc' = "download"
     ELSE getcmd' = getcmd /\ pc' = "probe_curl"
  /\ UNCHANGED <<arg1, args, stack, out, exitStatus, n, response, ver, tagopt,
                 imgid, status, images, files, hasWget, hasCurl>>

\* probe_curl going on to the download when curl is missing too
probe_curl_noabort ==
  /\ pc = "probe_curl"
  /\ UNCHANGED <<mvars, cvars, hvars>>
  /\ cmds' = Append(cmds, Cmd("curl", <<"-h">>, IF hasCurl THEN 0 ELSE NotFound))
  /\ IF hasCurl
     THEN /\ getcmd' = "curl -o " \o filenm
          /\ out' = out
     ELSE /\ getcmd' = getcmd
          /\ out' = printf(out, NoGetText)
  /\ pc' = "download"
  /\ UNCHANGED <<exitStatus, stack>>
  /\ UNCHANGED <<arg1, args, n, response, ver, tagopt, imgid, status, images,
                 files, hasWget, hasCurl>>

\* install_image, lines 363-369: curl -h
probe_curl ==
  /\ pc = "probe_curl"
  /\ UNCHANGED <<mvars, cvars, hvars>>
  /\ cmds' = Append(cmds, Cmd("curl", <<"-h">>, IF hasCurl THEN 0 ELSE NotFound))
  /\ IF hasCurl
     THEN /\ getcmd' = "curl -o " \o filenm
          /\ pc' = "download"
          /\ UNCHANGED <<out, exitStatus, stack>>
     ELSE /\ getcmd' = getcmd
          /\ out' = printf(out, NoGetText)
          /\ Exit(1)
  /\ UNCHANGED <<arg1, args, n, response, ver, tagopt, imgid, status, images,
                 files, hasWget, hasCurl>>

\* the command line of $getcmd ${url}/${filenm}
DownloadCmd(g, rc) ==
  IF g = "wget" THEN Cmd("wget", <<url \o "/" \o filenm>>, rc)
  ELSE Cmd("curl", <<"-o", filenm, url \o "/" \o filenm>>, rc)

\* wget never overwrites an existing file (it writes a numbered copy beside
\* it); curl -o always writes the named file
Downloaded(g, f, c) ==
  IF g = "wget" /\ f[filenm] # "none" THEN f ELSE [f EXCEPT ![filenm] = c]

\* download without the test of $?: docker load follows in any case
download_unchecked ==
  /\ pc = "download"
  /\ UNCHANGED <<mvars, cvars, hvars>>
  /\ \E code \in {0} \cup FailCodes :
       /\ cmds' = Append(cmds, DownloadCmd(getcmd, code))
       /\ status' = code
       /\ files' = Downloaded(getcmd, files, IF code = 0 THEN "image" ELSE "junk")
  /\ out' = printf(out, DownloadingText)
  /\ pc' = "load"
  /\ UNCHANGED <<arg1, args, stack, exitStatus, n, response, getcmd, ver,
                 tagopt, imgid, images, hasWget, hasCurl>>

\* download that tries again when the download failed
download_retry ==
  /\ pc = "download"
  /\ UNCHANGED <<mvars, cvars, hvars>>
  /\ \E code \in {0} \cup FailCodes :
       /\ cmds' = Append(cmds, DownloadCmd(getcmd, code))
       /\ status' = code
       /\ files' = IF code = 0 THEN Downloaded(getcmd, files, "image") ELSE files
       /\ pc' = IF code = 0 THEN "load" ELSE "download"
  /\ out' = printf(out, DownloadingText)
  /\ UNCHANGED <<arg1, args, stack, exitStatus, n, response, getcmd, ver,
                 tagopt, imgid, images, hasWget, hasCurl>>

\* install_image, lines 371-376: the download and the test of its status
download ==
  /\ pc = "download"
  /\ UNCHANGED <<mvars, cvars, hvars>>
  /\ \E code \in {0} \cup FailCodes, partial \in BOOLEAN :
       /\ cmds' = Append(cmds, DownloadCmd(getcmd, code))
       /\ status' = code
       /\ IF code # 0
          THEN /\ files' = IF partial THEN Downloaded(getcmd, files, "junk") ELSE files
               /\ out' = printf(printf(out, DownloadingText), DownloadFailedText)
               /\ Exit(1)
          ELSE /\ files' = Downloaded(getcmd, files, "image")
               /\ out' = printf(out, DownloadingText)
               /\ pc' = "load"
               /\ UNCHANGED <<exitStatus, stack>>
  /\ UNCHANGED <<arg1, args, n, response, getcmd, ver, tagopt, imgid, images,
                 hasWget, hasCurl>>

\* install_image, lines 377-379: docker load < $filenm
docker_load ==
  /\ pc = "load"
  /\ UNCHANGED <<mvars, cvars, hvars>>
  /\ out' = printf(out, LoadingText)
  /\ \E ok \in BOOLEAN, loaded \in SUBSET LoadableTags :
       /\ cmds' = Append(cmds, Cmd("docker", <<"load", filenm>>, rcOf(ok)))
       /\ ok => files[filenm] = "image"
       /\ ~ok => loaded = {}
       /\ images' = images \cup loaded
       /\ status' = IF ok THEN 0 ELSE 1
  /\ Return
  /\ UNCHANGED <<arg1, args, exitStatus, n, response, getcmd, ver, tagopt,
                 imgid, files, hasWget, hasCurl>>

\* 'docker run' of the test and notebook commands
docker_run(a) ==
  /\ \E code \in {0} \cup FailCodes :
       /\ cmds' = Append(cmds, Cmd("docker", <<"run">> \o a, code))
       /\ status' = code
  /\ pc' = "end"
  /\ UNCHANGED <<arg1, args, stack, exitStatus, n, response, getcmd, ver,
                 tagopt, imgid, images, files, hasWget, hasCurl>>

\* lines 424-425
run_tests ==
  /\ pc = "test"
  /\ UNCHANGED <<mvars, cvars, hvars>>
  /\ out' = printf(out, RunningTestsText)
  /\ docker_run(<<"-it", RunImage, "/bin/bash", "-c", "cd /home/idaes && pytest">>)

\* lines 429-430
run_notebook ==
  /\ pc = "notebook"
  /\ UNCHANGED <<mvars, cvars, hvars>>
  /\ out' = printf(out, StartingJupyterText)
  /\ docker_run(<<"-p", "8888:8888", "-it", RunImage>>)

\* build_image, lines 390-396: the version tag, then one tag per argument
TagOpt(v, a) == <<vertag(v)>> \o [i \in 1..Len(a) |-> usertag(a[i])]

\* build_image, lines 388-396
detect_version ==
  /\ pc = "build_image"
  /\ UNCHANGED <<mvars, cvars, hvars>>
  /\ \E v \in Versions :
       /\ ver' = v
       /\ cmds' = Append(cmds, Cmd("python", <<"-c", "from idaes import ver; ...">>,
                                   rcOf(v # "")))
  /\ out' = printf(out, DetectedText(ver'))
  /\ tagopt' = TagOpt(ver', args)
  /\ pc' = "build_test_file"
  /\ UNCHANGED <<arg1, args, stack, exitStatus, n, response, getcmd, imgid,
                 status, images, files, hasWget, hasCurl>>

\* build_image, lines 399-400 and 412-414: if [[ ! -e $imgname ]]
build_test_file ==
  /\ pc = "build_test_file"
  /\ UNCHANGED <<mvars, cvars, hvars>>
  /\ IF files[imgname(ver)] = "none"
     THEN /\ pc' = "build_query"
          /\ UNCHANGED <<out, status>>
     ELSE /\ out' = printf(out, FileExistsText(ver))
          /\ status' = 0
          /\ pc' = "end"
  /\ UNCHANGED <<arg1, args, stack, cmds, exitStatus, n, response, getcmd, ver,
                 tagopt, imgid, images, files, hasWget, hasCurl>>

\* build_query that builds whether or not the image exists
build_query_always ==
  /\ pc = "build_query"
  /\ UNCHANGED <<mvars, cvars, hvars>>
  /\ \E up \in BOOLEAN :
       /\ imgid' = docker_images_q(vertag(ver), up)
       /\ cmds' = Append(cmds, Cmd("docker", <<"images", "-q", vertag(ver)>>, rcOf(up)))
  /\ out' = printf(out, BuildingText)
  /\ pc' = "docker_build"
  /\ UNCHANGED <<arg1, args, stack, exitStatus, n, response, getcmd, ver,
                 tagopt, status, images, files, hasWget, hasCurl>>

\* build_image, lines 401-403 and 406-408
build_query ==
  /\ pc = "build_query"
  /\ UNCHANGED <<mvars, cvars, hvars>>
  /\ \E up \in BOOLEAN :
       /\ imgid' = docker_images_q(vertag(ver), up)
       /\ cmds' = Append(cmds, Cmd("docker", <<"images", "-q", vertag(ver)>>, rcOf(up)))
  /\ IF imgid' = ""
     THEN /\ out' = printf(out, BuildingText)
          /\ pc' = "docker_build"
     ELSE /\ out' = printf(out, ImageExistsText(ver))
          /\ pc' = "docker_save"
  /\ UNCHANGED <<arg1, args, stack, exitStatus, n, response, getcmd, ver,
                 tagopt, status, images, files, hasWget, hasCurl>>

\* build_image, line 404: docker build . $tagopt
docker_build ==
  /\ pc = "docker_build"
  /\ UNCHANGED <<mvars, cvars, hvars>>
  /\ \E ok \in BOOLEAN :
       /\ cmds' = Append(cmds, Cmd("docker", <<"build", ".">> \o tagopt, rcOf(ok)))
       /\ images' = IF ok THEN images \cup Range(tagopt) ELSE images
       /\ status' = IF ok THEN 0 ELSE 1
  /\ pc' = "build_requery"
  /\ UNCHANGED <<arg1, args, stack, out, exitStatus, n, response, getcmd, ver,
                 tagopt, imgid, files, hasWget, hasCurl>>

\* build_image, line 405: imgid=$( docker images -q $vertag )
build_requery ==
  /\ pc = "build_requery"
  /\ UNCHANGED <<mvars, cvars, hvars>>
  /\ \E up \in BOOLEAN :
       /\ imgid' = docker_images_q(vertag(ver), up)
       /\ cmds' = Append(cmds, Cmd("docker", <<"images", "-q", vertag(ver)>>, rcOf(up)))
  /\ pc' = "docker_save"
  /\ UNCHANGED <<arg1, args, stack, out, exitStatus, n, response, getcmd, ver,
                 tagopt, status, images, files, hasWget, hasCurl>>

\* build_image, lines 409-411: docker save $imgid | gzip -c > $imgname.
\* The redirection creates the file whatever docker save does.
docker_save ==
  /\ pc = "docker_save"
  /\ UNCHANGED <<mvars, cvars, hvars>>
  /\ \E ok \in BOOLEAN :
       /\ cmds' = Append(cmds, Cmd("docker", <<"save", imgid>>, rcOf(ok)))
       /\ ok => imgid # ""
       /\ files' = [files EXCEPT ![imgname(ver)] = IF ok THEN "image" ELSE "junk"]
  /\ out' = printf(printf(out, SavingText), DoneText(ver))
  /\ status' = 0
  /\ pc' = "end"
  /\ UNCHANGED <<arg1, args, stack, exitStatus, n, response, getcmd, ver,
                 tagopt, imgid, images, hasWget, hasCurl>>

\* the end of the script: it exits with the status of its last command
script_end ==
  /\ pc = "end"
  /\ UNCHANGED <<mvars, cvars, hvars>>
  /\ Exit(status)
  /\ UNCHANGED <<arg1, args, cmds, out, n, response, getcmd, ver, tagopt,
                 imgid, status, images, files, hasWget, hasCurl>>

DNext ==
  \/ Invoke \/ Dispatch
  \/ check_image \/ read_response \/ check_image_end
  \/ probe_wget \/ probe_curl \/ download \/ docker_load
  \/ run_tests \/ run_notebook
  \/ detect_version \/ build_test_file \/ build_query \/ docker_build
  \/ build_requery \/ docker_save
  \/ script_end

-----------------------------------------------------------------------------
(* The Makefiles *)

\* ---- src/unnamed/part_000: cubic_roots
CubicFiles == {"cubic_roots.c", "cubic_roots.o", "cubic_roots.so", "ALL", "clean"}
\* the first rule of the Makefile is the default goal (Makefile.in has none)
CubicDefaultGoal == "ALL"
\* 'make' and 'make clean'
CubicGoals == {CubicDefaultGoal, "clean"}
CompileLine == "$(CC) -c $(CFLAGS) -fPIC cubic_roots.c -o cubic_roots.o"
LinkLine == "$(CC) $(LDFLAGS) cubic_roots.o -o cubic_roots.so"

CubicRuled == {"ALL", "cubic_roots.o", "cubic_roots.so", "clean"}

\* the rules with cubic_roots.so not depending on cubic_roots.o
CubicPrereqs_nodep(t) ==
  CASE t = "ALL" -> <<"cubic_roots.so">>
    [] t = "cubic_roots.o" -> <<"cubic_roots.c">>
    [] OTHER -> <<>>

CubicPrereqs(t) ==
  CASE t = "ALL" -> <<"cubic_roots.so">>
    [] t = "cubic_roots.so" -> <<"cubic_roots.o">>
    [] t = "cubic_roots.o" -> <<"cubic_roots.c">>
    [] OTHER -> <<>>

CubicRecipe(t) ==
  CASE t = "cubic_roots.o" -> <<CompileLine>>
    [] t = "cubic_roots.so" -> <<LinkLine>>
    [] t = "clean" -> <<"rm -f *.o", "rm -f *.so">>
    [] OTHER -> <<>>

\* ---- src/docs/Makefile, lines 1-319: the targets behind 'idaes', 'html',
\* 'clean' and 'allclean' (the other builder targets have the shape of html)
DocsGoals == {"idaes", "html", "apidoc", "dep", "examples", "clean", "allclean"}
DocsRuled == {"clean", "allclean", "idaes", "apidoc", "dep", "html", "examples",
              "nbconvert", "nbimages", "execute"}
\* every target but idaes is declared .PHONY
DocsPhony == DocsRuled \ {"idaes"}

DocsPrereqs(t) ==
  CASE t = "allclean" -> <<"clean">>
    [] t = "idaes" -> <<"dep", "examples", "html">>
    [] t = "dep" -> <<"apidoc">>
    [] t = "html" -> <<"apidoc">>
    [] t = "examples" -> <<"execute", "nbconvert", "nbimages">>
    [] OTHER -> <<>>

ApidocLoop == "for ix in idaes idaes.dmf idaes.vis; do /bin/cp apidoc_i/$ix.rst apidoc; done"

DocsRecipe(t) ==
  CASE t = "clean" -> <<"rm -f apidoc/*", "rm -f sphinx-build.log">>
    [] t = "allclean" -> <<"rm -rf build/*">>
    [] t = "idaes" -> <<"echo Rebuilding IDAES documentation">>
    [] t = "apidoc" -> <<"echo Build apidocs (twice)",
                         "sphinx-apidoc -o apidoc_i",
                         "sphinx-apidoc -o apidoc_x",
                         "echo Combine indexed and non-indexed docs",
                         "mkdir -p apidoc",
                         "/bin/cp apidoc_x/* apidoc",
                         ApidocLoop,
                         "/bin/rm -rf apidoc_i apidoc_x",
                         "echo Done: output in directory 'apidoc'">>
    [] t = "dep" -> <<"echo Done building all dependencies">>
    [] t = "html" -> <<"mkdir -p build/examples",
                       "sphinx-build -b html",
                       "/bin/cp examples/*.html build/examples",
                       "/bin/cp examples/*.png build/examples",
                       "echo",
                       "echo Build finished.">>
    [] t = "examples" -> <<"echo Examples copied as HTML.">>
    [] t = "nbconvert" -> <<"mkdir -p build/examples",
                            "convert_notebooks.sh ../examples/executed build/examples">>
    [] t = "nbimages" -> <<"$(shell find ../examples -name *.png -exec cp {} build/examples)">>
    [] t = "execute" -> <<"jupyter nbconvert --to notebook --execute">>
    [] OTHER -> <<>>

\* lines that do not fail: echo, rm -f / rm -rf of generated files, and the
\* nbimages line, which expands to nothing (make ignores the status of $(shell))
NeverFails ==
  {"rm -f *.o", "rm -f *.so", "rm -f apidoc/*", "rm -f sphinx-build.log",
   "rm -rf build/*", "/bin/rm -rf apidoc_i apidoc_x",
   "$(shell find ../examples -name *.png -exec cp {} build/examples)",
   "echo Rebuilding IDAES documentation", "echo Build apidocs (twice)",
   "echo Combine indexed and non-indexed docs",
   "echo Done: output in directory 'apidoc'",
   "echo Done building all dependencies", "echo", "echo Build finished.",
   "echo Examples copied as HTML."}

Prereqs(mk, t) == IF mk = "cubic" THEN CubicPrereqs(t) ELSE DocsPrereqs(t)
Recipe(mk, t) == IF mk = "cubic" THEN CubicRecipe(t) ELSE DocsRecipe(t)
Phony(mk) == IF mk = "cubic" THEN {} ELSE DocsPhony
Ruled(mk) == IF mk = "cubic" THEN CubicRuled ELSE DocsRuled
Goals(mk) == IF mk = "cubic" THEN CubicGoals ELSE DocsGoals

-----------------------------------------------------------------------------
(* The directories *)

\* latest time a file of the cubic_roots directory may get
MaxClock == 5

\* modules sphinx-apidoc writes one .rst file for
Modules == {"idaes", "idaes.dmf", "idaes.vis", "idaes.core"}
\* the modules of the for loop of the apidoc recipe
Indexed == {"idaes", "idaes.dmf", "idaes.vis"}
\* the last word of the for loop
LastIndexed == "idaes.vis"
\* a .rst file: absent, written with the index options, or with noindex
Flavours == {"none", "i", "x"}
NoRst == [m \in Modules |-> "none"]
DocDirs == {"apidoc_i", "apidoc_x", "apidoc", "build", "build/examples"}
\* what the recipes put into BUILDDIR; the html builder writes its pages and
\* the hidden file .buildinfo into its output directory, which is BUILDDIR
BuildEntries == {"doctrees", "html", ".buildinfo", "examples/html",
                 "examples/png", "examples/notebooks"}
\* the entries of BUILDDIR the shell pattern build/* does not match
DotEntries == {".buildinfo"}

\* the docs directory of a checkout: nothing generated yet
DocsCheckout(exhtml, expng, log) ==
  [dirs |-> {}, apidoc_i |-> NoRst, apidoc_x |-> NoRst, apidoc |-> NoRst,
   build |-> {}, log |-> log, errors |-> FALSE, executed |-> FALSE,
   exhtml |-> exhtml, expng |-> expng]

\* the cubic_roots directory of a checkout: the source file only
CubicCheckout == [f \in CubicFiles |-> IF f = "cubic_roots.c" THEN 1 ELSE 0]

\* whether a recipe line of the docs Makefile can succeed in fs; oks tells
\* which /bin/cp of the for loop succeed
DocsCanSucceed(cmd, oks, fs) ==
  CASE cmd = "/bin/cp apidoc_x/* apidoc" ->
         "apidoc" \in fs.dirs /\ \E m \in Modules : fs.apidoc_x[m] # "none"
    [] cmd = ApidocLoop ->
         \A m \in Indexed : oks[m] => ("apidoc" \in fs.dirs /\ fs.apidoc_i[m] # "none")
    [] cmd = "/bin/cp examples/*.html build/examples" ->
         fs.exhtml /\ "build/examples" \in fs.dirs
    [] cmd = "/bin/cp examples/*.png build/examples" ->
         fs.expng /\ "build/examples" \in fs.dirs
    [] OTHER -> TRUE

\* what a recipe line of the docs Makefile leaves in the directory
DocsEffect(cmd, ok, oks, fs) ==
  CASE cmd = "sphinx-apidoc -o apidoc_i" ->
         IF ok THEN [fs EXCEPT !.dirs = @ \cup {"apidoc_i"},
                               !.apidoc_i = [m \in Modules |-> "i"]]
         ELSE fs
    [] cmd = "sphinx-apidoc -o apidoc_x" ->
         IF ok THEN [fs EXCEPT !.dirs = @ \cup {"apidoc_x"},
                               !.apidoc_x = [m \in Modules |-> "x"]]
         ELSE fs
    [] cmd = "mkdir -p apidoc" ->
         IF ok THEN [fs EXCEPT !.dirs = @ \cup {"apidoc"}] ELSE fs
    [] cmd = "/bin/cp apidoc_x/* apidoc" ->
         IF ok THEN [fs EXCEPT !.apidoc =
                       [m \in Modules |-> IF fs.apidoc_x[m] # "none"
                                          THEN fs.apidoc_x[m] ELSE @[m]]]
         ELSE fs
    [] cmd = ApidocLoop ->
         [fs EXCEPT !.apidoc =
            [m \in Modules |-> IF m \in Indexed /\ oks[m]
                               THEN fs.apidoc_i[m] ELSE @[m]]]
    [] cmd = "/bin/rm -rf apidoc_i apidoc_x" ->
         [fs EXCEPT !.dirs = @ \ {"apidoc_i", "apidoc_x"},
                    !.apidoc_i = NoRst, !.apidoc_x = NoRst]
    [] cmd = "mkdir -p build/examples" ->
         IF ok THEN [fs EXCEPT !.dirs = @ \cup {"build", "build/examples"}] ELSE fs
    [] cmd = "sphinx-build -b html" ->
         \* -w sphinx-errors.txt: the warning file is opened in any case
         IF ok THEN [fs EXCEPT !.errors = TRUE, !.build = @ \cup {"doctrees", "html", ".buildinfo"}]
         ELSE [fs EXCEPT !.errors = TRUE]
    [] cmd = "/bin/cp examples/*.html build/examples" ->
         IF ok THEN [fs EXCEPT !.build = @ \cup {"examples/html"}] ELSE fs
    [] cmd = "/bin/cp examples/*.png build/examples" ->
         IF ok THEN [fs EXCEPT !.build = @ \cup {"examples/png"}] ELSE fs
    [] cmd = "convert_notebooks.sh ../examples/executed build/examples" ->
         IF ok THEN [fs EXCEPT !.build = @ \cup {"examples/notebooks"}] ELSE fs
    [] cmd = "$(shell find ../examples -name *.png -exec cp {} build/examples)" ->
         IF "build/examples" \in fs.dirs
         THEN [fs EXCEPT !.build = @ \cup {"examples/png"}] ELSE fs
    [] cmd = "jupyter nbconvert --to notebook --execute" ->
         IF ok THEN [fs EXCEPT !.executed = TRUE] ELSE fs
    [] cmd = "rm -f apidoc/*" -> [fs EXCEPT !.apidoc = NoRst]
    [] cmd = "rm -f sphinx-build.log" -> [fs EXCEPT !.log = FALSE]
    [] cmd = "rm -rf build/*" ->
         \* the pattern * matches no name that starts with a dot
         [fs EXCEPT !.build = @ \cap DotEntries, !.dirs = @ \ {"build/examples"}]
    [] OTHER -> fs

\* whether a recipe line of the cubic_roots Makefile can succeed
CubicCanSucceed(cmd, mt) ==
  CASE cmd = CompileLine -> mt["cubic_roots.c"] > 0
    [] cmd = LinkLine -> mt["cubic_roots.o"] > 0
    [] OTHER -> TRUE

\* the file a recipe line of the cubic_roots Makefile writes ("" for none)
CubicOutput(cmd) ==
  CASE cmd = CompileLine -> "cubic_roots.o"
    [] cmd = LinkLine -> "cubic_roots.so"
    [] OTHER -> ""

\* what a recipe line of the cubic_roots Makefile leaves in the directory, at
\* time now; a compiler that fails leaves its output file alone or removes it
CubicEffect(cmd, ok, del, mt, now) ==
  CASE cmd \in {CompileLine, LinkLine} ->
         IF ok THEN [mt EXCEPT ![CubicOutput(cmd)] = now]
         ELSE IF del THEN [mt EXCEPT ![CubicOutput(cmd)] = 0] ELSE mt
    [] cmd = "rm -f *.o" -> [mt EXCEPT !["cubic_roots.o"] = 0]
    [] cmd = "rm -f *.so" -> [mt EXCEPT !["cubic_roots.so"] = 0]
    [] OTHER -> mt

-----------------------------------------------------------------------------
(* make, without -j, -k or -i *)

Exists(f) == makefile = "cubic" /\ mtime[f] > 0

\* whether prerequisite p makes target t out of date
Newer(p, t) ==
  \/ p \in Phony(makefile)
  \/ ~Exists(p)
  \/ mtime[p] > mtime[t]

\* a target is remade when it is phony, does not exist, or a prerequisite is
\* newer
MustRemake(t) ==
  \/ t \in Phony(makefile)
  \/ ~Exists(t)
  \/ \E i \in DOMAIN Prereqs(makefile, t) : Newer(Prereqs(makefile, t)[i], t)

Frame(t) == [t |-> t, i |-> 1, line |-> 0]
Top == mstack[Len(mstack)]
Pop == SubSeq(mstack, 1, Len(mstack) - 1)
SetTop(f) == [mstack EXCEPT ![Len(mstack)] = f]

\* the target on top is up to date; make exits 0 after the goal
Finish ==
  /\ made' = made \cup {Top.t}
  /\ mstack' = Pop
  /\ mstate' = IF Len(mstack) = 1 THEN "ok" ELSE mstate

\* make stops at the first error with exit status 2
Fail ==
  /\ mstack' = <<>>
  /\ mstate' = "failed"
  /\ made' = made

MInit(mk) ==
  /\ makefile = mk
  /\ goal = ""
  /\ mstack = <<>>
  /\ made = {}
  /\ mlog = <<>>
  /\ mstate = "idle"
  /\ prev = [goal |-> "", state |-> "idle"]
  /\ mtime = CubicCheckout
  /\ clock = 1
  /\ \E exhtml \in BOOLEAN, expng \in BOOLEAN, log \in BOOLEAN :
        dfs = DocsCheckout(exhtml, expng, log)

\* 'make g' is started
MStart(g) ==
  /\ mstate # "running"
  /\ goal' = g
  /\ mstack' = <<Frame(g)>>
  /\ made' = {}
  /\ mlog' = <<>>
  /\ mstate' = "running"
  /\ prev' = [goal |-> goal, state |-> mstate]
  /\ UNCHANGED <<makefile, mtime, clock, dfs>>

\* the user runs make, with a goal or with none (the default goal)
m_start ==
  /\ \E g \in Goals(makefile) : MStart(g)
  /\ UNCHANGED <<dvars, cvars, hvars>>

\* m_descend without the memory of the targets already made in this run
m_descend_again ==
  /\ mstate = "running"
  /\ mstack # <<>>
  /\ Top.line = 0
  /\ Top.i <= Len(Prereqs(makefile, Top.t))
  /\ mstack' = Append(SetTop([Top EXCEPT !.i = @ + 1]),
                      Frame(Prereqs(makefile, Top.t)[Top.i]))
  /\ UNCHANGED <<makefile, goal, made, mlog, mstate, prev, mtime, clock, dfs>>
  /\ UNCHANGED <<dvars, cvars, hvars>>

\* make turns to the next prerequisite of the target on top
m_descend ==
  /\ mstate = "running"
  /\ mstack # <<>>
  /\ Top.line = 0
  /\ Top.i <= Len(Prereqs(makefile, Top.t))
  /\ LET p == Prereqs(makefile, Top.t)[Top.i]
         next == SetTop([Top EXCEPT !.i = @ + 1])
     IN  mstack' = IF p \in made THEN next ELSE Append(next, Frame(p))
  /\ UNCHANGED <<makefile, goal, made, mlog, mstate, prev, mtime, clock, dfs>>
  /\ UNCHANGED <<dvars, cvars, hvars>>

\* all prerequisites are done: make decides whether to run the recipe
m_decide ==
  /\ mstate = "running"
  /\ mstack # <<>>
  /\ Top.line = 0
  /\ Top.i > Len(Prereqs(makefile, Top.t))
  /\ IF Top.t \notin Ruled(makefile)
     THEN IF Exists(Top.t) THEN Finish ELSE Fail
     ELSE IF MustRemake(Top.t) /\ Recipe(makefile, Top.t) # <<>>
          THEN /\ mstack' = SetTop([Top EXCEPT !.line = 1])
               /\ UNCHANGED <<made, mstate>>
          ELSE Finish
  /\ UNCHANGED <<makefile, goal, mlog, prev, mtime, clock, dfs>>
  /\ UNCHANGED <<dvars, cvars, hvars>>

\* make runs the next line of the recipe of the target on top and waits for
\* its exit status
m_run ==
  /\ mstate = "running"
  /\ mstack # <<>>
  /\ Top.line > 0
  /\ LET cmd == Recipe(makefile, Top.t)[Top.line] IN
     \E ok \in BOOLEAN, del \in BOOLEAN, oks \in [Indexed -> BOOLEAN] :
        /\ cmd \in NeverFails => ok
        /\ cmd # ApidocLoop => \A m \in Indexed : oks[m] = ok
        \* the status of a for loop is the status of its last command
        /\ cmd = ApidocLoop => ok = oks[LastIndexed]
        /\ (ok \/ cmd \notin {CompileLine, LinkLine}) => ~del
        /\ IF makefile = "cubic"
           THEN /\ ok => CubicCanSucceed(cmd, mtime)
                /\ (ok /\ CubicOutput(cmd) # "") => clock < MaxClock
                /\ clock' = IF ok /\ CubicOutput(cmd) # "" THEN clock + 1 ELSE clock
                /\ mtime' = CubicEffect(cmd, ok, del, mtime, clock + 1)
                /\ dfs' = dfs
           ELSE /\ (ok \/ cmd = ApidocLoop) => DocsCanSucceed(cmd, oks, dfs)
                /\ dfs' = DocsEffect(cmd, ok, oks, dfs)
                /\ UNCHANGED <<mtime, clock>>
        /\ mlog' = Append(mlog, [t |-> Top.t, k |-> Top.line, cmd |-> cmd,
                                rc |-> IF ok THEN 0 ELSE 1])
        /\ IF ~ok THEN Fail
           ELSE IF Top.line = Len(Recipe(makefile, Top.t)) THEN Finish
           ELSE /\ mstack' = SetTop([Top EXCEPT !.line = @ + 1])
                /\ UNCHANGED <<made, mstate>>
  /\ UNCHANGED <<makefile, goal, prev>>
  /\ UNCHANGED <<dvars, cvars, hvars>>

\* the developer edits cubic_roots.c between two runs of make
edit_source ==
  /\ makefile = "cubic"
  /\ mstate # "running"
  /\ clock < MaxClock
  /\ clock' = clock + 1
  /\ mtime' = [mtime EXCEPT !["cubic_roots.c"] = clock + 1]
  /\ UNCHANGED <<makefile, goal, mstack, made, mlog, mstate, prev, dfs>>
  /\ UNCHANGED <<dvars, cvars, hvars>>

-----------------------------------------------------------------------------
(* The CircleCI job, src/unnamed/part_002 *)

MakeHtmlStep == "cd docs && make html"

CISteps == <<"checkout",
             "./install-solvers.sh",
             "sudo pip install pip==18.0.0",
             "sudo pip install -qr requirements.txt",
             "pyomo --version",
             "sudo python setup.py -q install",
             MakeHtmlStep,
             "pytest docs idaes -m 'not nocircleci'",
             "coverage report",
             "coveralls">>

CInit ==
  /\ ciState = "idle"
  /\ ciPos = 1
  /\ ciLog = <<>>

\* the end of a step whose status is ignored
StepDone_ignored(step, rc) ==
  /\ ciLog' = Append(ciLog, [step |-> step, rc |-> rc])
  /\ ciPos' = ciPos + 1
  /\ ciState' = IF ciPos = Len(CISteps) THEN "passed" ELSE "running"

\* the end of a step: a non-zero status fails the job, which runs no later step
StepDone(step, rc) ==
  /\ ciLog' = Append(ciLog, [step |-> step, rc |-> rc])
  /\ ciPos' = ciPos + 1
  /\ ciState' = IF rc # 0 THEN "failed"
                ELSE IF ciPos = Len(CISteps) THEN "passed" ELSE "running"

\* the workflow starts job python-3.7 in a fresh container
ci_start ==
  /\ ciState \in {"idle", "failed", "passed"}
  /\ mstate # "running"
  /\ ciState' = "running"
  /\ ciPos' = 1
  /\ ciLog' = <<>>
  /\ dfs' = DocsCheckout(dfs.exhtml, dfs.expng, dfs.log)
  /\ UNCHANGED <<makefile, goal, mstack, made, mlog, mstate, prev, mtime, clock>>
  /\ UNCHANGED <<dvars, hvars>>

\* a step other than the documentation build runs and returns its status
ci_step ==
  /\ ciState = "running"
  /\ CISteps[ciPos] # MakeHtmlStep
  /\ \E rc \in {0} \cup FailCodes : StepDone(CISteps[ciPos], rc)
  /\ UNCHANGED <<mvars, dvars, hvars>>

\* the step 'cd docs && make html' starts make
ci_make_start ==
  /\ ciState = "running"
  /\ CISteps[ciPos] = MakeHtmlStep
  /\ MStart("html")
  /\ ciState' = "waiting"
  /\ UNCHANGED <<ciPos, ciLog, dvars, hvars>>

\* make has exited: its exit status is the status of the step
ci_make_done ==
  /\ ciState = "waiting"
  /\ mstate \in {"ok", "failed"}
  /\ StepDone(MakeHtmlStep, IF mstate = "ok" THEN 0 ELSE 2)
  /\ UNCHANGED <<mvars, dvars, hvars>>

-----------------------------------------------------------------------------
(* The Heater unit model, src/unnamed/part_001 *)

\* values config.dynamic and config.has_holdup can hold when build runs: the
\* domain of both options is In([useDefault, True, False]), which also lets
\* in the integer 0, equal to False but not the object False
FlagValues == {"False", "True", "useDefault", "0"}
Configs == [dynamic : FlagValues, has_holdup : FlagValues]
\* names a caller may give to make_control_volume
Names == {"control_volume", "cv"}

DynamicsError == "ValueError: IdealGasIsentropcCompressor does not support dynamics"
HoldupError == "ValueError: IdealGasIsentropcCompressor does not support holdup"
\* any exception raised inside a library call
LibraryError == "Exception"

\* what the control volume holds after each call of make_control_volume
CVParts == <<"ControlVolume0DBlock", "state_blocks", "material_balances",
             "total_enthalpy_balances", "total_pressure_balances">>

\* the test 'v is not False' with v == False for 'is not False'
IsNotFalse_equality(v) == v \notin {"False", "0"}

\* 'v is not False': identity with the object False
IsNotFalse(v) == v # "False"

\* a Heater block whose build has not been called
HIdle ==
  /\ hpc = "idle"
  /\ hconfig = [dynamic |-> "useDefault", has_holdup |-> "useDefault"]
  /\ hcaller = ""
  /\ hname = ""
  /\ hcalls = <<>>
  /\ hattrs = <<>>
  /\ hcv = <<>>
  /\ hraised = ""

\* the block as constructed with any setting of the two options
HInit ==
  /\ hpc = "idle"
  /\ hconfig \in Configs
  /\ hcaller = ""
  /\ hname = ""
  /\ hcalls = <<>>
  /\ hattrs = <<>>
  /\ hcv = <<>>
  /\ hraised = ""

\* raise: the exception leaves build
Raise(e) ==
  /\ hpc' = "raised"
  /\ hraised' = e

\* a library call that returns, going on at position next, or raises
LibraryCall(call, next) ==
  \E ok \in BOOLEAN :
     IF ok THEN /\ hcalls' = Append(hcalls, call)
                /\ hpc' = next
                /\ hraised' = hraised
     ELSE /\ Raise(LibraryError)
          /\ hcalls' = hcalls

\* what UnitModelBlockData.build may leave in the options: an option set to
\* useDefault is resolved from the flowsheet or left as it is
Resolved(c) ==
  {d \in Configs :
     /\ d.dynamic = c.dynamic \/ (c.dynamic = "useDefault" /\ d.dynamic \in {"True", "False"})
     /\ d.has_holdup = c.has_holdup
          \/ (c.has_holdup = "useDefault" /\ d.has_holdup \in {"True", "False"})}

\* HeaterData.build is called
build ==
  /\ hpc = "idle"
  /\ hpc' = "super_build"
  /\ hcaller' = "build"
  /\ UNCHANGED <<hconfig, hname, hcalls, hattrs, hcv, hraised>>
  /\ UNCHANGED <<dvars, mvars, cvars>>

\* line 92: super(HeaterData, self).build()
super_build ==
  /\ hpc = "super_build"
  /\ LibraryCall("UnitModelBlockData.build", "call_make_control_volume")
  /\ IF hpc' = "raised" THEN hconfig' = hconfig ELSE hconfig' \in Resolved(hconfig)
  /\ UNCHANGED <<hcaller, hname, hattrs, hcv>>
  /\ UNCHANGED <<dvars, mvars, cvars>>

\* line 94: make_control_volume(self, "control_volume", self.config)
build_make_control_volume ==
  /\ hpc = "call_make_control_volume"
  /\ hname' = "control_volume"
  /\ hpc' = "check_dynamic"
  /\ UNCHANGED <<hconfig, hcaller, hcalls, hattrs, hcv, hraised>>
  /\ UNCHANGED <<dvars, mvars, cvars>>

\* make_control_volume(unit, name, config) called on a unit from a notebook
\* cell, outside build
make_control_volume ==
  /\ hpc = "idle"
  /\ hcaller' = "notebook"
  /\ \E nm \in Names : hname' = nm
  /\ hpc' = "check_dynamic"
  /\ UNCHANGED <<hconfig, hcalls, hattrs, hcv, hraised>>
  /\ UNCHANGED <<dvars, mvars, cvars>>

\* lines 38-39: if config.dynamic is not False: raise ValueError(...)
check_dynamic ==
  /\ hpc = "check_dynamic"
  /\ IF IsNotFalse(hconfig.dynamic)
     THEN Raise(DynamicsError)
     ELSE hpc' = "check_holdup" /\ hraised' = hraised
  /\ UNCHANGED <<hconfig, hcaller, hname, hcalls, hattrs, hcv>>
  /\ UNCHANGED <<dvars, mvars, cvars>>

\* lines 40-41: if config.has_holdup is not False: raise ValueError(...)
check_holdup ==
  /\ hpc = "check_holdup"
  /\ IF IsNotFalse(hconfig.has_holdup)
     THEN Raise(HoldupError)
     ELSE hpc' = "create" /\ hraised' = hraised
  /\ UNCHANGED <<hconfig, hcaller, hname, hcalls, hattrs, hcv>>
  /\ UNCHANGED <<dvars, mvars, cvars>>

\* lines 43-44: control_volume = ControlVolume0DBlock(default={...})
create_control_volume ==
  /\ hpc = "create"
  /\ LibraryCall("ControlVolume0DBlock", "setattr")
  /\ hcv' = IF hpc' = "raised" THEN hcv ELSE <<CVParts[1]>>
  /\ UNCHANGED <<hconfig, hcaller, hname, hattrs>>
  /\ UNCHANGED <<dvars, mvars, cvars>>

\* line 46: setattr(unit, name, control_volume)
attach_control_volume ==
  /\ hpc = "setattr"
  /\ LibraryCall("setattr", "add_state_blocks")
  /\ hattrs' = IF hpc' = "raised" THEN hattrs ELSE Append(hattrs, hname)
  /\ UNCHANGED <<hconfig, hcaller, hname, hcv>>
  /\ UNCHANGED <<dvars, mvars, cvars>>

\* a method of the control volume that adds part k of CVParts
AddPart(k, method, next) ==
  /\ hpc = method
  /\ LibraryCall(method, next)
  /\ hcv' = IF hpc' = "raised" THEN hcv ELSE Append(hcv, CVParts[k])
  /\ UNCHANGED <<hconfig, hcaller, hname, hattrs>>
  /\ UNCHANGED <<dvars, mvars, cvars>>

\* line 48
add_state_blocks == AddPart(2, "add_state_blocks", "add_material_balances")

\* lines 49-50
add_material_balances ==
  AddPart(3, "add_material_balances", "add_total_enthalpy_balances")

\* lines 51-53
add_total_enthalpy_balances ==
  AddPart(4, "add_total_enthalpy_balances", "add_total_pressure_balances")

\* line 54, then the function returns to its caller
add_total_pressure_balances ==
  AddPart(5, "add_total_pressure_balances",
          IF hcaller = "build" THEN "add_inlet_port" ELSE "done")

\* a method of the unit that attaches attribute a
AddAttr(a, method, next) ==
  /\ hpc = method
  /\ LibraryCall(method, next)
  /\ hattrs' = IF hpc' = "raised" THEN hattrs ELSE Append(hattrs, a)
  /\ UNCHANGED <<hconfig, hcaller, hname, hcv>>
  /\ UNCHANGED <<dvars, mvars, cvars>>

\* line 96: self.add_inlet_port()
add_inlet_port == AddAttr("inlet", "add_inlet_port", "add_outlet_port")

\* line 97: self.add_outlet_port()
add_outlet_port == AddAttr("outlet", "add_outlet_port", "add_object_reference")

\* line 99: add_object_reference(self, 'heat', self.control_volume.heat[0.0])
add_object_reference == AddAttr("heat", "add_object_reference", "done")

HNext ==
  \/ build \/ super_build \/ build_make_control_volume \/ make_control_volume
  \/ check_dynamic \/ check_holdup
  \/ create_control_volume \/ attach_control_volume
  \/ add_state_blocks \/ add_material_balances
  \/ add_total_enthalpy_balances \/ add_total_pressure_balances
  \/ add_inlet_port \/ add_outlet_port \/ add_object_reference

-----------------------------------------------------------------------------
(* Specifications *)

vars == <<dvars, mvars, cvars, hvars>>

\* the idaes-docker script
Init ==
  DInit /\ MInit("docs") /\ dfs = DocsCheckout(TRUE, TRUE, FALSE) /\ CInit /\ HIdle
Next == DNext
Spec == Init /\ [][Next]_vars

\* make in the docs directory
DocsInit == DIdle /\ MInit("docs") /\ CInit /\ HIdle
DocsNext == m_start \/ m_descend \/ m_decide \/ m_run
DocsSpec == DocsInit /\ [][DocsNext]_vars

\* make in the cubic_roots directory
CubicInit ==
  DIdle /\ MInit("cubic") /\ dfs = DocsCheckout(TRUE, TRUE, FALSE) /\ CInit /\ HIdle
CubicNext == m_start \/ m_descend \/ m_decide \/ m_run \/ edit_source
CubicSpec == CubicInit /\ [][CubicNext]_vars

\* the CI job, with make in the docs directory
CIInit == DIdle /\ MInit("docs") /\ CInit /\ HIdle
CINext == ci_start \/ ci_step \/ ci_make_start \/ ci_make_done
            \/ m_descend \/ m_decide \/ m_run
CISpec == CIInit /\ [][CINext]_vars

\* the build of a Heater block
HeaterInit ==
  DIdle /\ MInit("docs") /\ dfs = DocsCheckout(TRUE, TRUE, FALSE) /\ CInit /\ HInit
HeaterNext == HNext
HeaterSpec == HeaterInit /\ [][HeaterNext]_vars

-----------------------------------------------------------------------------
(* idaes-docker: properties *)

Commands == {"test", "notebook", "update", "create", "-h", "help"}

IsProbe(c) == c.prog \in {"wget", "curl"} /\ c.args = <<"-h">>
IsDownload(c) == c.prog \in {"wget", "curl"} /\ c.args # <<"-h">>
IsDocker(c, sub) == c.prog = "docker" /\ c.args[1] = sub
\* the external actions: download, docker load, docker build, docker save,
\* docker run
Kind(c) == IF IsDownload(c) THEN "download"
           ELSE IF c.prog = "docker" THEN c.args[1] ELSE c.prog
Issued(k) == {i \in DOMAIN cmds : Kind(cmds[i]) = k}
Printed(m) == \E i \in DOMAIN out : out[i] = m

\* C1: invoked with no first argument, or with a first argument that is none
\* of test, notebook, update, create, -h, help, the script prints the usage
\* text and exits with status 1, and issues no docker, wget or curl command.
C1_UnknownCommandUsage ==
  (pc # "idle" /\ arg1 \notin Commands) =>
     /\ pc \in {"main", "exited"}
     /\ \A i \in DOMAIN cmds : cmds[i].prog \notin {"docker", "wget", "curl"}
     /\ pc = "exited" => (out = <<UsageText>> /\ exitStatus = 1)

C1_Witness ==
  pc = "exited" /\ arg1 = "install" /\ out = <<UsageText>> /\ exitStatus = 1

\* C2: a download that returns a non-zero status is followed by the message
\* "Download failed. Abort command." and exit status 1, and by no further
\* command; 'docker load' is issued only right after a download that
\* returned 0.
C2_DownloadFailureAborts ==
  \A i \in DOMAIN cmds :
     /\ (IsDownload(cmds[i]) /\ cmds[i].rc # 0) =>
           /\ i = Len(cmds)
           /\ pc = "exited"
           /\ exitStatus = 1
           /\ out[Len(out)] = DownloadFailedText
     /\ IsDocker(cmds[i], "load") =>
           /\ i > 1
           /\ IsDownload(cmds[i - 1])
           /\ cmds[i - 1].rc = 0

C2_Witness ==
  /\ pc = "exited"
  /\ cmds # <<>>
  /\ IsDownload(cmds[Len(cmds)])
  /\ cmds[Len(cmds)].rc # 0
  /\ exitStatus = 1

\* C3: when check_image finds no image and the response is none of y, Y, yes,
\* Yes, YES, the script prints the installation help and exits with status 1
\* and has issued nothing but the 'docker images' query (no probe, no
\* download, no docker run); when the image is found, check_image neither
\* prompts nor downloads.
C3_DeclineAborts ==
  /\ (n = 0 /\ pc # "read" /\ response \notin {"y", "Y", "yes", "Yes", "YES"}) =>
        /\ pc = "exited"
        /\ exitStatus = 1
        /\ out = <<NotFoundText, PromptText, HelpText>>
        /\ Len(cmds) = 1
        /\ IsDocker(cmds[1], "images")
  /\ n > 0 =>
        /\ ~Printed(PromptText)
        /\ response = ""
        /\ Issued("download") = {}
        /\ \A i \in DOMAIN cmds : ~IsProbe(cmds[i])

C3_Witness ==
  n = 0 /\ pc = "exited" /\ response = "yES" /\ Printed(HelpText)

\* C4: for test and notebook, 'docker run' is issued only after check_image
\* completed: the image was found, or the user accepted and install_image
\* went through a successful download and 'docker load'; never after the user
\* declined or install_image aborted.
C4_RunOnlyAfterCheck ==
  \A i \in Issued("run") :
     /\ arg1 \in {"test", "notebook"}
     /\ IsDocker(cmds[1], "images")
     /\ cmds[1].args[3] = CheckedImage
     /\ \/ n > 0 /\ i = 2
        \/ /\ n = 0
           /\ Accepts(response)
           /\ \E j \in Issued("download"), k \in Issued("load") :
                 j < k /\ k < i /\ cmds[j].rc = 0
     /\ ~Printed(HelpText)
     /\ ~Printed(DownloadFailedText)
     /\ ~Printed(NoGetText)

C4_Witness ==
  /\ Issued("run") # {}
  /\ n = 0
  /\ response = "Yes"
  /\ Issued("load") # {}

\* C5: in one invocation each external action (download, docker load, docker
\* build, docker save, docker run) is issued at most once, and once the script
\* has detected a failure (no download command, download failed) it has exited
\* and the failing command is the last one it issued.
C5_NoRetry ==
  /\ \A k \in {"download", "load", "build", "save", "run"} :
        Cardinality(Issued(k)) <= 1
  /\ Printed(DownloadFailedText) =>
        /\ pc = "exited"
        /\ IsDownload(cmds[Len(cmds)])
        /\ out[Len(out)] = DownloadFailedText
  /\ Printed(NoGetText) =>
        /\ pc = "exited"
        /\ cmds[Len(cmds)] = Cmd("curl", <<"-h">>, NotFound)
        /\ out[Len(out)] = NoGetText
        /\ \A k \in {"download", "load", "build", "save", "run"} : Issued(k) = {}

C5_Witness ==
  /\ pc = "exited"
  /\ Printed(DownloadFailedText)
  /\ Cardinality(Issued("download")) = 1

\* C8: 'update' runs install_image unconditionally: it issues no 'docker
\* images' query and prints no prompt, its first command is the wget probe,
\* and when it ends without a detected failure it has downloaded and issued
\* 'docker load', whether or not the image is present locally.
C8_UpdateUnconditional ==
  (arg1 = "update" /\ pc # "idle") =>
     /\ n = Unset
     /\ response = ""
     /\ Issued("images") = {}
     /\ ~Printed(PromptText)
     /\ cmds # <<>> => cmds[1].prog = "wget" /\ cmds[1].args = <<"-h">>
     /\ (pc = "exited" /\ ~Printed(NoGetText) /\ ~Printed(DownloadFailedText)) =>
           \E j \in Issued("download"), k \in Issued("load") :
              j < k /\ cmds[j].rc = 0

C8_Witness ==
  /\ arg1 = "update"
  /\ pc = "exited"
  /\ CheckedImage \in images
  /\ RunImage \in images
  /\ Issued("load") # {}
  /\ cmds[1].prog = "wget"

-----------------------------------------------------------------------------
(* The CI job, the docs Makefile, the cubic_roots Makefile: properties *)

IsPrefix(a, b) == Len(a) <= Len(b) /\ \A i \in DOMAIN a : a[i] = b[i]
StepNames(l) == [i \in DOMAIN l |-> l[i].step]
Ran(step) == \E i \in DOMAIN ciLog : ciLog[i].step = step
Passed(step) == \E i \in DOMAIN ciLog : ciLog[i].step = step /\ ciLog[i].rc = 0
LoggedOk(cmd) == \E i \in DOMAIN mlog : mlog[i].cmd = cmd /\ mlog[i].rc = 0

\* C6: the CI job runs its steps in the order checkout, install-solvers, pip
\* pin, requirements install, pyomo --version, setup.py install, 'make html'
\* in docs, pytest, coverage report, coveralls; a step that exits non-zero is
\* the last step of the job; pytest runs only after 'make html' exited 0 (the
\* html recipe having run sphinx-build with success), and coveralls only
\* after pytest exited 0.
C6_CIOrderAndHalt ==
  /\ IsPrefix(StepNames(ciLog),
              <<"checkout", "./install-solvers.sh", "sudo pip install pip==18.0.0",
                "sudo pip install -qr requirements.txt", "pyomo --version",
                "sudo python setup.py -q install", "cd docs && make html",
                "pytest docs idaes -m 'not nocircleci'", "coverage report",
                "coveralls">>)
  /\ \A i \in DOMAIN ciLog :
        ciLog[i].rc # 0 => (i = Len(ciLog) /\ ciState = "failed")
  /\ Ran("pytest docs idaes -m 'not nocircleci'") =>
        /\ Passed("cd docs && make html")
        /\ goal = "html"
        /\ mstate = "ok"
        /\ LoggedOk("sphinx-build -b html")
  /\ Ran("coveralls") => Passed("pytest docs idaes -m 'not nocircleci'")
  /\ ciState = "passed" => Len(ciLog) = Len(CISteps)

C6_Witness ==
  /\ ciState = "passed"
  /\ Ran("coveralls")
  /\ Ran("pytest docs idaes -m 'not nocircleci'")

\* the recipes C7 names, in the order it names them, line by line
IdaesOrder == <<"apidoc", "execute", "nbconvert", "nbimages", "html">>
RecipeLines(t) == [k \in 1..Len(DocsRecipe(t)) |-> [t |-> t, k |-> k]]
ExpectedIdaes ==
  RecipeLines(IdaesOrder[1]) \o RecipeLines(IdaesOrder[2]) \o
  RecipeLines(IdaesOrder[3]) \o RecipeLines(IdaesOrder[4]) \o
  RecipeLines(IdaesOrder[5])
IsNamed(e) == e.t \in {"apidoc", "execute", "nbconvert", "nbimages", "html"}
NamedRun ==
  LET sel == SelectSeq(mlog, IsNamed)
  IN  [i \in DOMAIN sel |-> [t |-> sel[i].t, k |-> sel[i].k]]

\* C7: 'make idaes' runs the recipes apidoc, execute, nbconvert, nbimages,
\* html in that order, every line of each once (so apidoc once), a recipe
\* starting only after the one before it has run all its lines with status 0;
\* a line that fails is the last line run and make fails; a run that succeeds
\* has run all five recipes.
C7_IdaesOrder ==
  goal = "idaes" =>
     /\ IsPrefix(NamedRun, ExpectedIdaes)
     /\ \A i \in DOMAIN mlog :
           mlog[i].rc # 0 => (i = Len(mlog) /\ mstate = "failed")
     /\ mstate = "ok" => NamedRun = ExpectedIdaes

C7_Witness ==
  /\ goal = "idaes"
  /\ mstate = "ok"
  /\ NamedRun = ExpectedIdaes

\* this step ran recipe line cmd
Runs(cmd) == Len(mlog') = Len(mlog) + 1 /\ mlog'[Len(mlog')].cmd = cmd
Written(f) == mtime'[f] # mtime[f] /\ mtime'[f] > 0

\* C9: cubic_roots.so is written only by a link step that succeeds and
\* cubic_roots.o only by a compile step that succeeds; the link step runs only
\* when cubic_roots.o exists and is newer than cubic_roots.c, and never in a
\* run whose compile step failed, so that run writes no cubic_roots.so; a
\* 'make clean' that succeeds leaves neither cubic_roots.o nor cubic_roots.so,
\* and the 'make' that follows it runs the compile step first and, when it
\* succeeds, has run the compile step and then the link step.
C9_CubicBuild ==
  /\ [][ /\ Written("cubic_roots.so") => (Runs(LinkLine) /\ mlog'[Len(mlog')].rc = 0)
         /\ Written("cubic_roots.o") => (Runs(CompileLine) /\ mlog'[Len(mlog')].rc = 0)
         /\ Runs(LinkLine) =>
               /\ mtime["cubic_roots.o"] > mtime["cubic_roots.c"]
               /\ \A i \in DOMAIN mlog : mlog[i].cmd = CompileLine => mlog[i].rc = 0
       ]_vars
  /\ [] /\ (goal = "clean" /\ mstate = "ok") =>
              (mtime["cubic_roots.o"] = 0 /\ mtime["cubic_roots.so"] = 0)
        /\ (goal = "ALL" /\ prev = [goal |-> "clean", state |-> "ok"]) =>
              /\ mlog # <<>> => mlog[1].cmd = CompileLine
              /\ mstate = "ok" =>
                    /\ Len(mlog) = 2
                    /\ mlog[1].rc = 0
                    /\ mlog[2] = [t |-> "cubic_roots.so", k |-> 1,
                                  cmd |-> LinkLine, rc |-> 0]

C9_Witness ==
  /\ goal = "ALL"
  /\ prev = [goal |-> "clean", state |-> "ok"]
  /\ mstate = "ok"
  /\ Len(mlog) = 2
  /\ clock = MaxClock

\* C11: the image whose presence check_image verifies, IMAGE_REPO:IMAGE_TAG,
\* is the image that the test and notebook commands start with 'docker run':
\* every 'docker run' the script issues names the checked image.
C11_RunsCheckedImage ==
  \A i \in Issued("run") : CheckedImage \in Range(cmds[i].args)

\* a step that issues one command, 'docker <sub>'
Issues(sub) ==
  /\ Len(cmds') = Len(cmds) + 1
  /\ IsDocker(cmds'[Len(cmds')], sub)

\* C12: build_image skips what seems done. 'docker build' and 'docker save'
\* are issued only while the file idaes-pse-docker-<ver>.tgz does not exist,
\* and nothing else of a create run changes a file, so an existing file is
\* left as it is; 'docker build' is issued only when the query for the version
\* tag that precedes it found no image (the tag is absent, or docker did not
\* answer the query), and only a 'docker build' changes the images. At the end
\* of a create run: no 'docker save' was issued only if the file exists, and
\* then no 'docker build' either; a 'docker save' without a 'docker build'
\* means the image with the version tag exists; and a 'docker build' is
\* followed by a 'docker save'.
C12_BuildImageSkips ==
  [][ /\ Issues("save") => files[imgname(ver)] = "none"
      /\ Issues("build") =>
            /\ files[imgname(ver)] = "none"
            /\ IsDocker(cmds[Len(cmds)], "images")
            /\ cmds[Len(cmds)].args[3] = vertag(ver)
            /\ vertag(ver) \notin images \/ cmds[Len(cmds)].rc # 0
      /\ arg1 = "create" =>
            /\ files' # files => Issues("save")
            /\ images' # images => Issues("build")
      /\ (arg1 = "create" /\ pc = "end") =>
            /\ Issued("save") = {} =>
                  /\ files[imgname(ver)] # "none"
                  /\ Issued("build") = {}
                  /\ Printed(FileExistsText(ver))
            /\ (Issued("save") # {} /\ Issued("build") = {}) =>
                  /\ vertag(ver) \in images
                  /\ Printed(ImageExistsText(ver))
            /\ \A b \in Issued("build") : \E s \in Issued("save") : b < s
    ]_vars

C12_Witness ==
  /\ pc = "exited"
  /\ arg1 = "create"
  /\ Issued("build") = {}
  /\ Issued("save") # {}
  /\ vertag(ver) \in images
  /\ files[imgname(ver)] = "image"

\* C13: whenever the create command has printed "Done: <image file>", the
\* 'docker save' it issued was given the id of an existing image carrying the
\* version tag, and the file written holds that image; and after a
\* 'docker build' that failed, the run leaves no image file behind (the file a
\* later create would find and answer with "Nothing to do: image file ...
\* already exists").
C13_DoneMeansSaved ==
  arg1 = "create" =>
     /\ Printed(DoneText(ver)) =>
           \E s \in Issued("save") :
              /\ cmds[s].args = <<"save", ImageId(vertag(ver))>>
              /\ vertag(ver) \in images
              /\ files[imgname(ver)] = "image"
     /\ \A b \in Issued("build") :
           cmds[b].rc # 0 => files[imgname(ver)] = "none"

\* C14: install_image chooses the downloader by probing. A download is done
\* with wget exactly when 'wget -h' succeeded, and it is the command right
\* after that probe; it is done with curl, as curl -o <file> <url>/<file>,
\* only when 'wget -h' failed and the 'curl -h' that followed succeeded. When
\* both probes failed the script has printed "Could not find 'curl' or 'wget'
\* command. Abort." as its last line and exited with status 1, and has issued
\* no download and no 'docker load'.
C14_DownloaderProbing ==
  /\ \A i \in DOMAIN cmds :
        /\ (IsProbe(cmds[i]) /\ cmds[i].prog = "wget") =>
              /\ cmds[i].rc = 0 <=> hasWget
              /\ (cmds[i].rc = 0 /\ pc # "download") =>
                    /\ i < Len(cmds)
                    /\ cmds[i + 1] = Cmd("wget", <<url \o "/" \o filenm>>, cmds[i + 1].rc)
        /\ (IsProbe(cmds[i]) /\ cmds[i].prog = "curl") =>
              /\ cmds[i].rc = 0 <=> hasCurl
              /\ i > 1
              /\ cmds[i - 1] = Cmd("wget", <<"-h">>, NotFound)
        /\ (IsDownload(cmds[i]) /\ cmds[i].prog = "wget") =>
              /\ i > 1
              /\ cmds[i - 1] = Cmd("wget", <<"-h">>, 0)
        /\ (IsDownload(cmds[i]) /\ cmds[i].prog = "curl") =>
              /\ i > 2
              /\ cmds[i - 2] = Cmd("wget", <<"-h">>, NotFound)
              /\ cmds[i - 1] = Cmd("curl", <<"-h">>, 0)
              /\ cmds[i].args = <<"-o", filenm, url \o "/" \o filenm>>
              /\ ~hasWget /\ hasCurl
  /\ (\E i \in DOMAIN cmds : cmds[i] = Cmd("curl", <<"-h">>, NotFound)) =>
        /\ pc = "exited"
        /\ exitStatus = 1
        /\ out[Len(out)] = NoGetText
        /\ Issued("download") = {}
        /\ Issued("load") = {}
  /\ Printed(NoGetText) => (~hasWget /\ ~hasCurl)

C14_Witness ==
  /\ pc = "exited"
  /\ exitStatus = 1
  /\ Printed(NoGetText)
  /\ arg1 = "update"
  /\ Len(cmds) = 2

\* C17: every path through usage ends the script with exit status 1. Once the
\* usage text is printed the script has exited with status 1 and did nothing
\* else: the usage text is all its output and it issued no command. The
\* commands help and -h end this way, as do a missing and an unknown command.
C17_UsageExitsOne ==
  /\ Printed(UsageText) =>
        /\ pc = "exited"
        /\ exitStatus = 1
        /\ out = <<UsageText>>
        /\ cmds = <<>>
        /\ stack = <<>>
  /\ (pc \notin {"idle", "main"} /\ arg1 \notin {"test", "notebook", "update", "create"}) =>
        Printed(UsageText)
  /\ pc = "exited" =>
        (Printed(UsageText) <=> arg1 \notin {"test", "notebook", "update", "create"})

C17_Witness ==
  /\ pc = "exited"
  /\ arg1 \in {"help", "-h"}
  /\ exitStatus = 1
  /\ out = <<UsageText>>

\* C15: after a 'make apidoc' that succeeded, apidoc holds the non-indexed
\* .rst file of every module except idaes, idaes.dmf and idaes.vis, whose
\* .rst files are the indexed ones, and the directories apidoc_i and apidoc_x
\* no longer exist.
C15_ApidocCombined ==
  (goal = "apidoc" /\ mstate = "ok") =>
     /\ \A m \in Modules : dfs.apidoc[m] = IF m \in Indexed THEN "i" ELSE "x"
     /\ "apidoc_i" \notin dfs.dirs
     /\ "apidoc_x" \notin dfs.dirs
     /\ dfs.apidoc_i = NoRst
     /\ dfs.apidoc_x = NoRst

\* a step in which make runs a recipe line of target t
CleanStep(t) ==
  /\ Len(mlog') = Len(mlog) + 1
  /\ mlog'[Len(mlog')].t = t

\* C16: every step of the recipe of clean removes nothing but .rst files
\* directly under apidoc/ and sphinx-build.log, and leaves the build directory
\* and sphinx-errors.txt as they are; after a 'make clean' that succeeded
\* apidoc/ holds no .rst file and sphinx-build.log does not exist. 'make
\* allclean' runs clean first, its own recipe leaves apidoc/, the log and
\* sphinx-errors.txt as they are, and after a 'make allclean' that succeeded
\* the build directory is empty as well.
C16_CleanFrame ==
  [][ /\ CleanStep("clean") =>
            /\ dfs'.build = dfs.build
            /\ dfs'.dirs = dfs.dirs
            /\ dfs'.errors = dfs.errors
            /\ dfs'.apidoc_i = dfs.apidoc_i /\ dfs'.apidoc_x = dfs.apidoc_x
            /\ dfs'.executed = dfs.executed
            /\ dfs'.exhtml = dfs.exhtml /\ dfs'.expng = dfs.expng
      /\ CleanStep("allclean") =>
            /\ dfs'.build \subseteq dfs.build
            /\ dfs'.apidoc = dfs.apidoc
            /\ dfs'.log = dfs.log
            /\ dfs'.errors = dfs.errors
            /\ dfs'.apidoc_i = dfs.apidoc_i /\ dfs'.apidoc_x = dfs.apidoc_x
            /\ dfs'.executed = dfs.executed
            /\ dfs'.exhtml = dfs.exhtml /\ dfs'.expng = dfs.expng
      /\ (goal' \in {"clean", "allclean"} /\ mstate' = "ok") =>
            /\ dfs'.apidoc = NoRst
            /\ ~dfs'.log
            /\ "clean" \in made'
      /\ (goal' = "allclean" /\ mstate' = "ok") => dfs'.build = {}
    ]_vars

\* make_control_volume has run its two tests
PastChecks == hname # "" /\ hpc \notin {"check_dynamic", "check_holdup"}

\* C18: make_control_volume raises ValueError whenever config.dynamic is not
\* False or config.has_holdup is not False, before any control volume is
\* created or attached to the unit; otherwise the control volume is attached
\* under the given name before anything is added to it, and state blocks,
\* material balances, total enthalpy balances and total pressure balances are
\* added in that order; HeaterData.build adds the inlet port, the outlet port
\* and the reference 'heat', in that order, only when the control volume holds
\* all four.
C18_ControlVolumeOrder ==
  /\ (PastChecks /\ (hconfig.dynamic # "False" \/ hconfig.has_holdup # "False")) =>
        /\ hpc = "raised"
        /\ hraised = IF hconfig.dynamic # "False" THEN DynamicsError ELSE HoldupError
        /\ hcv = <<>>
        /\ hattrs = <<>>
        /\ \A i \in DOMAIN hcalls : hcalls[i] = "UnitModelBlockData.build"
  /\ hraised \in {DynamicsError, HoldupError} =>
        (hconfig.dynamic # "False" \/ hconfig.has_holdup # "False")
  /\ IsPrefix(hcv, CVParts)
  /\ IsPrefix(hattrs, <<hname, "inlet", "outlet", "heat">>)
  /\ hattrs # <<>> => hcv # <<>>
  /\ Len(hcv) > 1 => hattrs # <<>>
  /\ Len(hattrs) > 1 => (hcv = CVParts /\ hcaller = "build")
  /\ (hcaller = "notebook" /\ hpc = "done") => (hcv = CVParts /\ hattrs = <<hname>>)
  /\ hcaller = "build" => hname \in {"", "control_volume"}

C18_Witness ==
  /\ hpc = "done"
  /\ hcaller = "build"
  /\ hcv = CVParts
  /\ hattrs = <<"control_volume", "inlet", "outlet", "heat">>

====
